---------------------------- MODULE Spec2Model ----------------------------
(***************************************************************************)
(* Model of App.Tempo (src/assets/js/tempo.js): the self-rescheduling step *)
(* timer of the step sequencer, its tempo / time-signature mutators and    *)
(* the host services it consumes (Date.now, setTimeout, clearTimeout).     *)
(*                                                                         *)
(* JavaScript numbers are modelled as exact rationals plus the special     *)
(* values NaN, +Infinity/-Infinity; `undefined` is a value of its own that *)
(* arithmetic coerces to NaN.                                              *)
(***************************************************************************)
EXTENDS Integers, Sequences, FiniteSets, TLC

(***************************************************************************)
(* Bounds of the model.                                                    *)
(***************************************************************************)
\* Date.now() readings range over 0..MaxNow
MaxNow == 2
\* handles the host can hand out are 1..MaxHandle
MaxHandle == 3
\* the argument ranges of SpecArgs reach ArgSpread beyond each clamping limit
ArgSpread == 3

(***************************************************************************)
(* JavaScript numbers.                                                     *)
(***************************************************************************)
Abs(x) == IF x < 0 THEN -x ELSE x

RECURSIVE Gcd(_, _)
Gcd(a, b) ==
  CHOOSE g \in {IF y = 0 THEN x ELSE Gcd(y, x % y) : x \in {a}, y \in {b}} :
    TRUE

\* the finite number n/d, normalised (d > 0, lowest terms)
Num(n, d) ==
  LET s == IF d < 0 THEN -1 ELSE 1
      g == Gcd(Abs(n), Abs(d))
  IN  [k |-> "fin", n |-> (s * n) \div g, d |-> (s * d) \div g]

Int2Num(i) == [k |-> "fin", n |-> i, d |-> 1]
NaN == [k |-> "nan", n |-> 0, d |-> 1]
Infinity(sign) == [k |-> "inf", n |-> sign, d |-> 1]
undefined == [k |-> "undefined", n |-> 0, d |-> 1]

\* ToNumber: undefined becomes NaN
ToNumber(x) == IF x.k = "undefined" THEN NaN ELSE x

Sign(x) == IF x.n > 0 THEN 1 ELSE IF x.n < 0 THEN -1 ELSE 0

\* a - b on numbers
SubNum(a, b) ==
  IF a.k = "nan" \/ b.k = "nan" THEN NaN
  ELSE IF a.k = "inf" /\ b.k = "inf"
         THEN IF a.n = b.n THEN NaN ELSE a
  ELSE IF a.k = "inf" THEN a
  ELSE IF b.k = "inf" THEN Infinity(-b.n)
  ELSE Num(a.n * b.d - b.n * a.d, a.d * b.d)

\* a - b on operands that may be undefined, each evaluated once
Sub(a0, b0) ==
  CHOOSE r \in {SubNum(a, b) : a \in {ToNumber(a0)}, b \in {ToNumber(b0)}} :
    TRUE

\* a * b on numbers
MulNum(a, b) ==
  IF a.k = "nan" \/ b.k = "nan" THEN NaN
  ELSE IF a.k = "inf" \/ b.k = "inf"
         THEN IF Sign(a) * Sign(b) = 0 THEN NaN
              ELSE Infinity(Sign(a) * Sign(b))
  ELSE Num(a.n * b.n, a.d * b.d)

\* a * b on operands that may be undefined, each evaluated once
Mul(a0, b0) ==
  CHOOSE r \in {MulNum(a, b) : a \in {ToNumber(a0)}, b \in {ToNumber(b0)}} :
    TRUE

\* a / b on numbers
DivNum(a, b) ==
  IF a.k = "nan" \/ b.k = "nan" THEN NaN
  ELSE IF a.k = "inf"
         THEN IF b.k = "inf" THEN NaN
              ELSE Infinity(a.n * (IF Sign(b) < 0 THEN -1 ELSE 1))
  ELSE IF b.k = "inf" THEN Int2Num(0)
  ELSE IF b.n = 0
         THEN IF a.n = 0 THEN NaN ELSE Infinity(Sign(a))
  ELSE Num(a.n * b.d, a.d * b.n)

\* a / b on operands that may be undefined, each evaluated once
Div(a0, b0) ==
  CHOOSE r \in {DivNum(a, b) : a \in {ToNumber(a0)}, b \in {ToNumber(b0)}} :
    TRUE

\* a < b on numbers (false whenever NaN is involved)
Less(a, b) ==
  IF a.k = "nan" \/ b.k = "nan" THEN FALSE
  ELSE IF a.k = "inf" THEN a.n < 0 /\ ~(b.k = "inf" /\ b.n < 0)
  ELSE IF b.k = "inf" THEN b.n > 0
  ELSE a.n * b.d < b.n * a.d

MathMin(a, b) ==
  IF a.k = "nan" \/ b.k = "nan" THEN NaN ELSE IF Less(b, a) THEN b ELSE a

MathMax(a, b) ==
  IF a.k = "nan" \/ b.k = "nan" THEN NaN ELSE IF Less(a, b) THEN b ELSE a

\* Math.round: the integer nearest to x, halves rounded up
MathRound(x) ==
  IF x.k = "fin" THEN Int2Num((2 * x.n + x.d) \div (2 * x.d)) ELSE x

(***************************************************************************)
(* JavaScript values passed as arguments.                                  *)
(***************************************************************************)
NumberV(x) == [t |-> "number", num |-> x, f |-> ""]
StringV == [t |-> "string", num |-> NaN, f |-> ""]
NullV == [t |-> "null", num |-> NaN, f |-> ""]
UndefinedV == [t |-> "undefined", num |-> NaN, f |-> ""]
BooleanV(b) == [t |-> "boolean", num |-> Int2Num(IF b THEN 1 ELSE 0), f |-> ""]
FunctionV(name) == [t |-> "function", num |-> NaN, f |-> name]

\* the typeof operator: it yields "object" for null and never "null"
TypeOf(v) == IF v.t = "null" THEN "object" ELSE v.t

\* ToBoolean, as used by !! and ||
Truthy(v) ==
  CASE v.t = "function" -> TRUE
    [] v.t = "boolean" -> v.num.n = 1
    [] v.t = "number" -> v.num.k = "inf" \/ (v.num.k = "fin" /\ v.num.n # 0)
    [] v.t = "string" -> TRUE
    [] OTHER -> FALSE

(***************************************************************************)
(* Program constants.                                                      *)
(***************************************************************************)
MIN_BPM == 40
MAX_BPM == 600
MIN_BEATS_PER_MEASURE == 1
MAX_BEATS_PER_MEASURE == 24
STEPS_PER_WHOLE_NOTE == 16

(***************************************************************************)
(* nearestIntResultDenominator: the two scans over integers.  NoClosest    *)
(* stands for the `closest` variable still being undefined.                *)
(***************************************************************************)
NoClosest == 0

\* first loop: i from denominator down to 1, stop at the first divisor
RECURSIVE SearchLower(_, _)
SearchLower(numerator, i) ==
  IF i >= 1
    THEN IF numerator % i = 0 THEN i ELSE SearchLower(numerator, i - 1)
    ELSE NoClosest

\* mutant: the upward scan goes on while i is nearer or as near as closest
RECURSIVE SearchHigherOnTies(_, _, _, _)
SearchHigherOnTies(numerator, denominator, closest, i) ==
  IF /\ i <= numerator
     /\ closest # NoClosest
     /\ Abs(denominator - i) <= Abs(denominator - closest)
    THEN IF numerator % i = 0 /\ i # closest
           THEN i
           ELSE SearchHigherOnTies(numerator, denominator, closest, i + 1)
    ELSE closest

\* second loop: i from denominator upwards while i <= numerator and i is
\* strictly nearer to denominator than closest (a comparison with an
\* undefined closest is false)
RECURSIVE SearchHigher(_, _, _, _)
SearchHigher(numerator, denominator, closest, i) ==
  IF /\ i <= numerator
     /\ closest # NoClosest
     /\ Abs(denominator - i) < Abs(denominator - closest)
    THEN IF numerator % i = 0
           THEN i
           ELSE SearchHigher(numerator, denominator, closest, i + 1)
    ELSE closest

\* mutant: the upward scan first, all the way to numerator; the downward
\* scan replaces its result only when strictly nearer
RECURSIVE FirstDivisorFrom(_, _)
FirstDivisorFrom(numerator, i) ==
  IF numerator % i = 0 THEN i ELSE FirstDivisorFrom(numerator, i + 1)

nearestHigherFirst(numerator, denominator) ==
  LET hi == FirstDivisorFrom(numerator, denominator)
      lo == SearchLower(numerator, denominator)
  IN  IF Abs(denominator - lo) < Abs(denominator - hi) THEN lo ELSE hi

nearestIntResultDenominator(numerator, denominator) ==
  SearchHigher(numerator, denominator,
               SearchLower(numerator, denominator), denominator)


(***************************************************************************)
(* State: the closure variables of the App.Tempo instance, the host's      *)
(* timer table and clock, and a record of what the last operation did.     *)
(***************************************************************************)
VARIABLES
  bpm,              \* number
  beatsPerMeasure,  \* number
  beatLength,       \* number
  stepInterval,     \* number, or undefined
  timeFix,          \* [lastTime, ratio]
  isPlaying,        \* BOOLEAN
  stepTimeout,      \* null or the handle returned by the last setTimeout
  callback,         \* name of the function stored in `callback`
  timers,           \* host: outstanding timeouts, each [id, delay]
  now,              \* host: the reading of Date.now()
  App,              \* the namespace object: its property App.tempo
  hist,             \* history: whether step() has run, the elapsed time its
                    \* latest run measured, whether the interval was
                    \* recomputed since (which voids that measurement)
  last              \* the last operation: name, arguments, outcome, effects

progVars == <<bpm, beatsPerMeasure, beatLength, stepInterval, timeFix,
              isPlaying, stepTimeout, callback>>
vars == <<bpm, beatsPerMeasure, beatLength, stepInterval, timeFix,
          isPlaying, stepTimeout, callback, timers, now, App, hist, last>>

\* stepTimeout = null
null == 0

\* the value of an operation that returns no object of its own
NoValue == [beatsPerMeasure |-> NaN, beatLength |-> NaN, simple |-> <<>>]

\* the functions a caller may install as step callback: one that only
\* counts, ones that call toggle(false), toggle(), toggle(true) on the
\* instance, and one that throws
UserCallbacks == {"cbCount", "cbStop", "cbToggle", "cbStart", "cbThrow"}

(***************************************************************************)
(* The machine record: program state, host state and the effects recorded  *)
(* while one operation runs (callbacks invoked, delays requested, handles  *)
(* cleared, whether an exception is propagating, the returned value).      *)
(***************************************************************************)
Cur ==
  [bpm |-> bpm, beatsPerMeasure |-> beatsPerMeasure, beatLength |-> beatLength,
   stepInterval |-> stepInterval, timeFix |-> timeFix, isPlaying |-> isPlaying,
   stepTimeout |-> stepTimeout, callback |-> callback, timers |-> timers,
   now |-> now, App |-> App, hist |-> hist, calls |-> <<>>, armed |-> <<>>,
   cleared |-> <<>>, thrown |-> FALSE, ret |-> "undefined", val |-> NoValue]

\* host: the handle setTimeout returns; never one of an outstanding timeout
\* nor the one the program still holds
NewHandle(m) ==
  CHOOSE h \in 1..MaxHandle :
    /\ h \notin {t.id : t \in m.timers} \cup {m.stepTimeout}
    /\ \A g \in 1..MaxHandle :
         g \notin {t.id : t \in m.timers} \cup {m.stepTimeout} => h <= g

CanSetTimeout(m) ==
  \E h \in 1..MaxHandle : h \notin {t.id : t \in m.timers} \cup {m.stepTimeout}

\* host: clearTimeout(handle); clearing null or a handle that is not
\* outstanding does nothing
clearTimeout(m, handle) ==
  [m EXCEPT !.timers = {t \in @ : t.id # handle},
            !.cleared = Append(@, handle)]

\* mutant: the interval is recomputed and the ratio kept
updateStepIntervalKeepsRatio(m) ==
  [m EXCEPT
     !.stepInterval = Div(Div(Int2Num(60 * 1000), m.bpm),
                          Div(Int2Num(STEPS_PER_WHOLE_NOTE), m.beatLength)),
     !.hist = [stepped |-> @.stepped, elapsed |-> NaN, changed |-> TRUE]]

updateStepInterval(m) ==
  [m EXCEPT
     !.stepInterval = Div(Div(Int2Num(60 * 1000), m.bpm),
                          Div(Int2Num(STEPS_PER_WHOLE_NOTE), m.beatLength)),
     !.timeFix.ratio = Int2Num(1),
     !.hist = [stepped |-> @.stepped, elapsed |-> NaN, changed |-> TRUE]]

\* mutant: stop() forgets clearTimeout
stopKeepsTimeout(m) == [m EXCEPT !.isPlaying = FALSE]

stop(m) ==
  clearTimeout([m EXCEPT !.isPlaying = FALSE], m.stepTimeout)

RECURSIVE step(_), start(_), toggle(_, _), callbackCall(_)

\* the stored function run on machine record m
callbackBody(m) ==
  LET m1 == [m EXCEPT !.calls = Append(@, m.callback)]
  IN  CASE m.callback = "cbStop" -> toggle(m1, BooleanV(FALSE))
        [] m.callback = "cbToggle" -> toggle(m1, UndefinedV)
        [] m.callback = "cbStart" -> toggle(m1, BooleanV(TRUE))
        [] m.callback = "cbThrow" -> [m1 EXCEPT !.thrown = TRUE]
        [] OTHER -> m1

\* callback.call(): runs the stored function on the state the call finds
callbackCall(m) == CHOOSE r \in {callbackBody(x) : x \in {m}} : TRUE

\* mutant: the handle setTimeout returns is not stored
stepDropsHandle(m) ==
  LET delay == Mul(m.stepInterval, m.timeFix.ratio)
      h == NewHandle(m)
      m1 == IF m.isPlaying
              THEN [m EXCEPT !.timers = @ \cup {[id |-> h, delay |-> delay]},
                             !.armed = Append(@, delay)]
              ELSE m
      timeDiff == Sub(Int2Num(m.now), m1.timeFix.lastTime)
      m2 == [m1 EXCEPT !.timeFix.ratio = Div(m1.stepInterval, timeDiff)]
      m3 == [m2 EXCEPT !.timeFix.lastTime = Int2Num(m.now),
                       !.hist = [stepped |-> TRUE, elapsed |-> timeDiff,
                                 changed |-> FALSE]]
  IN  callbackCall(m3)

\* mutant: the ratio is elapsed time over interval instead of interval over
\* elapsed time
stepInvertedRatio(m) ==
  LET delay == Mul(m.stepInterval, m.timeFix.ratio)
      h == NewHandle(m)
      m1 == IF m.isPlaying
              THEN [m EXCEPT !.timers = @ \cup {[id |-> h, delay |-> delay]},
                             !.stepTimeout = h,
                             !.armed = Append(@, delay)]
              ELSE m
      timeDiff == Sub(Int2Num(m.now), m1.timeFix.lastTime)
      m2 == [m1 EXCEPT !.timeFix.ratio = Div(timeDiff, m1.stepInterval)]
      m3 == [m2 EXCEPT !.timeFix.lastTime = Int2Num(m.now),
                       !.hist = [stepped |-> TRUE, elapsed |-> timeDiff,
                                 changed |-> FALSE]]
  IN  callbackCall(m3)

\* mutant: the next timeout is set at the end of step(), after the
\* callback has returned
stepArmsLast(m) ==
  LET timeDiff == Sub(Int2Num(m.now), m.timeFix.lastTime)
      delay == Mul(m.stepInterval, m.timeFix.ratio)
      m2 == [m EXCEPT !.timeFix.ratio = Div(m.stepInterval, timeDiff)]
      m3 == [m2 EXCEPT !.timeFix.lastTime = Int2Num(m.now),
                       !.hist = [stepped |-> TRUE, elapsed |-> timeDiff,
                                 changed |-> FALSE]]
      m4 == callbackCall(m3)
      h == NewHandle(m4)
  IN  IF m4.isPlaying /\ ~m4.thrown
        THEN [m4 EXCEPT !.timers = @ \cup {[id |-> h, delay |-> delay]},
                        !.stepTimeout = h,
                        !.armed = Append(@, delay)]
        ELSE m4

step(m) ==
  LET delay == Mul(m.stepInterval, m.timeFix.ratio)
      h == NewHandle(m)
      m1 == IF m.isPlaying
              THEN [m EXCEPT !.timers = @ \cup {[id |-> h, delay |-> delay]},
                             !.stepTimeout = h,
                             !.armed = Append(@, delay)]
              ELSE m
      timeDiff == Sub(Int2Num(m.now), m1.timeFix.lastTime)
      m2 == [m1 EXCEPT !.timeFix.ratio = Div(m1.stepInterval, timeDiff)]
      m3 == [m2 EXCEPT !.timeFix.lastTime = Int2Num(m.now),
                       !.hist = [stepped |-> TRUE, elapsed |-> timeDiff,
                                 changed |-> FALSE]]
  IN  callbackCall(m3)

start(m) ==
  step([m EXCEPT !.isPlaying = TRUE,
                 !.timeFix.lastTime = Sub(Int2Num(m.now), m.stepInterval)])

\* mutant: an omitted argument is taken as false instead of flipping
toggleOmittedIsFalse(m, on) ==
  LET newState == Truthy(on)
  IN  IF newState = m.isPlaying
        THEN [m EXCEPT !.ret = "self"]
        ELSE LET m1 == IF newState THEN start(m) ELSE stop(m)
             IN  IF m1.thrown THEN m1 ELSE [m1 EXCEPT !.ret = "self"]

toggle(m, on) ==
  LET newState == IF TypeOf(on) # "undefined" THEN Truthy(on) ELSE ~m.isPlaying
  IN  IF newState = m.isPlaying
        THEN [m EXCEPT !.ret = "self"]
        ELSE LET m1 == IF newState THEN start(m) ELSE stop(m)
             IN  IF m1.thrown THEN m1 ELSE [m1 EXCEPT !.ret = "self"]

\* mutant: only the lower limit is applied
setBpmNoUpperLimit(m, newBpm) ==
  IF TypeOf(newBpm) # "number"
    THEN [m EXCEPT !.thrown = TRUE, !.ret = "TypeError"]
    ELSE LET clamped == MathMax(Int2Num(MIN_BPM), newBpm.num)
         IN  [updateStepInterval([m EXCEPT !.bpm = clamped])
                EXCEPT !.ret = "self"]

setBpm(m, newBpm) ==
  IF TypeOf(newBpm) # "number"
    THEN [m EXCEPT !.thrown = TRUE, !.ret = "TypeError"]
    ELSE LET clamped == MathMax(Int2Num(MIN_BPM),
                                MathMin(newBpm.num, Int2Num(MAX_BPM)))
         IN  [updateStepInterval([m EXCEPT !.bpm = clamped])
                EXCEPT !.ret = "self"]

\* the integer a number denotes (the beat-length argument after rounding
\* and clamping to 1..STEPS_PER_WHOLE_NOTE)
IntOf(x) == x.n \div x.d

\* mutant: the rounded, clamped beat length is stored as it is
setTimeSignatureNoDivisor(m, newBeatsPerMeasure, newBeatLength) ==
  IF TypeOf(newBeatsPerMeasure) # "number"
    THEN [m EXCEPT !.thrown = TRUE, !.ret = "TypeError"]
  ELSE IF TypeOf(newBeatLength) # "number"
    THEN [m EXCEPT !.thrown = TRUE, !.ret = "TypeError"]
  ELSE
    LET bm == MathMax(Int2Num(MIN_BEATS_PER_MEASURE),
                      MathMin(MathRound(newBeatsPerMeasure.num),
                              Int2Num(MAX_BEATS_PER_MEASURE)))
        bl == MathMax(Int2Num(1),
                      MathMin(MathRound(newBeatLength.num),
                              Int2Num(STEPS_PER_WHOLE_NOTE)))
    IN  [updateStepInterval([m EXCEPT !.beatsPerMeasure = bm,
                                      !.beatLength = bl])
           EXCEPT !.ret = "self"]

\* mutant: beatsPerMeasure is stored before newBeatLength's type is checked
setTimeSignatureLateCheck(m, newBeatsPerMeasure, newBeatLength) ==
  IF TypeOf(newBeatsPerMeasure) # "number"
    THEN [m EXCEPT !.thrown = TRUE, !.ret = "TypeError"]
  ELSE
    LET bm == MathMax(Int2Num(MIN_BEATS_PER_MEASURE),
                      MathMin(MathRound(newBeatsPerMeasure.num),
                              Int2Num(MAX_BEATS_PER_MEASURE)))
        m1 == [m EXCEPT !.beatsPerMeasure = bm]
    IN  IF TypeOf(newBeatLength) # "number"
          THEN [m1 EXCEPT !.thrown = TRUE, !.ret = "TypeError"]
          ELSE LET bl == nearestIntResultDenominator(
                           STEPS_PER_WHOLE_NOTE,
                           IntOf(MathMax(Int2Num(1),
                                         MathMin(MathRound(newBeatLength.num),
                                                 Int2Num(STEPS_PER_WHOLE_NOTE)))))
               IN  [updateStepInterval([m1 EXCEPT !.beatLength = Int2Num(bl)])
                      EXCEPT !.ret = "self"]

setTimeSignature(m, newBeatsPerMeasure, newBeatLength) ==
  IF TypeOf(newBeatsPerMeasure) # "number"
    THEN [m EXCEPT !.thrown = TRUE, !.ret = "TypeError"]
  ELSE IF TypeOf(newBeatLength) # "number"
    THEN [m EXCEPT !.thrown = TRUE, !.ret = "TypeError"]
  ELSE
    LET bm == MathMax(Int2Num(MIN_BEATS_PER_MEASURE),
                      MathMin(MathRound(newBeatsPerMeasure.num),
                              Int2Num(MAX_BEATS_PER_MEASURE)))
        bl == nearestIntResultDenominator(
                STEPS_PER_WHOLE_NOTE,
                IntOf(MathMax(Int2Num(1),
                              MathMin(MathRound(newBeatLength.num),
                                      Int2Num(STEPS_PER_WHOLE_NOTE)))))
    IN  [updateStepInterval([m EXCEPT !.beatsPerMeasure = bm,
                                      !.beatLength = Int2Num(bl)])
           EXCEPT !.ret = "self"]

setStepCallback(m, newCallback) ==
  IF TypeOf(newCallback) # "null" /\ TypeOf(newCallback) # "function"
    THEN [m EXCEPT !.thrown = TRUE, !.ret = "TypeError"]
    ELSE [m EXCEPT !.callback = IF Truthy(newCallback)
                                  THEN newCallback.f ELSE "noop",
                   !.ret = "self"]

getBpm(m) == m.bpm

\* Number.prototype.toString of a non-negative integer: its decimal digits,
\* a string being the sequence of its characters
DigitChars == <<"0", "1", "2", "3", "4", "5", "6", "7", "8", "9">>

RECURSIVE Digits(_)
Digits(i) ==
  IF i < 10 THEN <<DigitChars[i + 1]>>
  ELSE Digits(i \div 10) \o <<DigitChars[(i % 10) + 1]>>

toString(x) ==
  IF x.k = "fin" /\ x.d = 1 /\ x.n >= 0 THEN Digits(x.n) ELSE <<"N", "a", "N">>

\* mutant: the string form has the two parts the other way round
getTimeSignatureSwapped(m) ==
  [beatsPerMeasure |-> m.beatsPerMeasure,
   beatLength |-> m.beatLength,
   simple |-> toString(m.beatLength) \o <<"/">> \o toString(m.beatsPerMeasure)]

getTimeSignature(m) ==
  [beatsPerMeasure |-> m.beatsPerMeasure,
   beatLength |-> m.beatLength,
   simple |-> toString(m.beatsPerMeasure) \o <<"/">> \o toString(m.beatLength)]

\* the constructor body, run once: the declarations of lines 63-171 and the
\* initialization of lines 380-389
construct(stepCallback) ==
  LET m0 == [bpm |-> Int2Num(140), beatsPerMeasure |-> Int2Num(4),
             beatLength |-> Int2Num(4), stepInterval |-> undefined,
             timeFix |-> [lastTime |-> Int2Num(0), ratio |-> Int2Num(1)],
             isPlaying |-> FALSE, stepTimeout |-> null, callback |-> "noop",
             timers |-> {}, now |-> 0, App |-> [tempo |-> "undefined"],
             hist |-> [stepped |-> FALSE, elapsed |-> NaN, changed |-> FALSE],
             calls |-> <<>>, armed |-> <<>>, cleared |-> <<>>,
             thrown |-> FALSE, ret |-> "undefined", val |-> NoValue]
  IN  IF TypeOf(stepCallback) = "function"
        THEN [setStepCallback(m0, stepCallback) EXCEPT !.ret = "instance"]
        ELSE [m0 EXCEPT !.ret = "instance"]

\* mutant: a later construction installs the callback it is given
constructAgainSetsCallback(m, stepCallback) ==
  LET m1 == IF TypeOf(stepCallback) = "function"
              THEN setStepCallback(m, stepCallback) ELSE m
  IN  [m1 EXCEPT !.App.tempo = "instance", !.ret = "instance"]

\* App.Tempo after the first construction: the overriding function of lines
\* 398-405, which takes no argument, points App.tempo at the instance and
\* returns the instance (also under `new`, as it returns an object)
constructAgain(m, stepCallback) ==
  [m EXCEPT !.App.tempo = "instance", !.ret = "instance"]

(***************************************************************************)
(* Arguments the operations are called with.                               *)
(***************************************************************************)
NotNumbers == {StringV, NullV, UndefinedV}

BpmInputs == {601}
BeatsPerMeasureInputs == {3}
BeatLengthInputs == {3, 4}
BpmArgs == {NumberV(Int2Num(x)) : x \in BpmInputs} \cup {StringV}
BeatsPerMeasureArgs ==
  {NumberV(Int2Num(x)) : x \in BeatsPerMeasureInputs} \cup {NullV}
BeatLengthArgs == {NumberV(Int2Num(x)) : x \in BeatLengthInputs} \cup {StringV}
CallbackArgs ==
  {FunctionV(f) : f \in UserCallbacks} \cup {NullV, NumberV(Int2Num(5))}
ToggleArgs == {UndefinedV, BooleanV(TRUE), BooleanV(FALSE)}
ConstructorArgs == {UndefinedV, FunctionV("cbCount")}

(***************************************************************************)
(* Actions.                                                                *)
(***************************************************************************)
\* the state after an operation that ended in machine record m
Apply(op, args, result) ==
  \E m \in {result} :
    /\ bpm' = m.bpm
    /\ beatsPerMeasure' = m.beatsPerMeasure
    /\ beatLength' = m.beatLength
    /\ stepInterval' = m.stepInterval
    /\ timeFix' = m.timeFix
    /\ isPlaying' = m.isPlaying
    /\ stepTimeout' = m.stepTimeout
    /\ callback' = m.callback
    /\ timers' = m.timers
    /\ now' = m.now
    /\ App' = m.App
    /\ hist' = m.hist
    /\ last' = [op |-> op, args |-> args, ret |-> m.ret, val |-> m.val,
                thrown |-> m.thrown, calls |-> m.calls, armed |-> m.armed,
                cleared |-> m.cleared]

Init ==
  \E a \in ConstructorArgs :
    LET m == construct(a)
    IN  /\ bpm = m.bpm
        /\ beatsPerMeasure = m.beatsPerMeasure
        /\ beatLength = m.beatLength
        /\ stepInterval = m.stepInterval
        /\ timeFix = m.timeFix
        /\ isPlaying = m.isPlaying
        /\ stepTimeout = m.stepTimeout
        /\ callback = m.callback
        /\ timers = m.timers
        /\ now = m.now
        /\ App = m.App
        /\ hist = m.hist
        /\ last = [op |-> "construct", args |-> <<a>>, ret |-> m.ret,
                   val |-> m.val, thrown |-> m.thrown, calls |-> m.calls,
                   armed |-> m.armed, cleared |-> m.cleared]

SetBpm(A) ==
  \E v \in A : Apply("setBpm", <<v>>, setBpm(Cur, v))

SetTimeSignature(A, B) ==
  \E v \in A, w \in B :
    Apply("setTimeSignature", <<v, w>>, setTimeSignature(Cur, v, w))

SetStepCallback ==
  \E v \in CallbackArgs :
    Apply("setStepCallback", <<v>>, setStepCallback(Cur, v))

Toggle ==
  \E v \in ToggleArgs :
    /\ CanSetTimeout(Cur)
    /\ Apply("toggle", <<v>>, toggle(Cur, v))

\* the host runs the function of an outstanding timeout; the timeout is
\* spent before the function runs
TimerFires ==
  \E t \in timers :
    /\ CanSetTimeout([Cur EXCEPT !.timers = @ \ {t}])
    /\ Apply("timer", <<NumberV(Int2Num(t.id))>>,
             step([Cur EXCEPT !.timers = @ \ {t}]))

\* the host's clock advances
ClockAdvances ==
  /\ now < MaxNow
  /\ Apply("clock", <<>>, [Cur EXCEPT !.now = @ + 1])

Next ==
  \/ SetBpm(BpmArgs)
  \/ SetTimeSignature(BeatsPerMeasureArgs, BeatLengthArgs)
  \/ SetStepCallback
  \/ Toggle
  \/ TimerFires
  \/ ClockAdvances

Spec == Init /\ [][Next]_vars

(***************************************************************************)
(* SpecArgs: the mutators alone, called with arguments from ranges that    *)
(* reach below, into and above the limits they clamp to.                   *)
(***************************************************************************)
WideBpmInputs ==
  ((MIN_BPM - ArgSpread)..(MIN_BPM + ArgSpread))
    \cup ((MAX_BPM - ArgSpread)..(MAX_BPM + ArgSpread))
    \cup {-1000, 0, 100000}
WideBeatsPerMeasureInputs ==
  ((MIN_BEATS_PER_MEASURE - ArgSpread)..(MIN_BEATS_PER_MEASURE + ArgSpread))
    \cup ((MAX_BEATS_PER_MEASURE - ArgSpread)..(MAX_BEATS_PER_MEASURE + ArgSpread))
    \cup {-1000, 1000}
WideBeatLengthInputs ==
  ((1 - ArgSpread)..(STEPS_PER_WHOLE_NOTE + ArgSpread)) \cup {-1000, 1000}

WideBpmArgs == {NumberV(Int2Num(x)) : x \in WideBpmInputs} \cup NotNumbers
WideBeatsPerMeasureArgs ==
  {NumberV(Int2Num(x)) : x \in WideBeatsPerMeasureInputs} \cup {NullV}
WideBeatLengthArgs ==
  {NumberV(Int2Num(x)) : x \in WideBeatLengthInputs}
    \cup {NumberV(Num(9, 2)), StringV}

NextArgs ==
  \/ SetBpm(WideBpmArgs)
  \/ SetTimeSignature(WideBeatsPerMeasureArgs, BeatLengthArgs)
  \/ SetTimeSignature(BeatsPerMeasureArgs, WideBeatLengthArgs)

SpecArgs == Init /\ [][NextArgs]_vars

(***************************************************************************)
(* SpecDrift: the tick loop at intervals of 10 ms and 40 ms (375 bpm, beat *)
(* lengths 1 and 4), with a clock that moves in steps of a nominal         *)
(* interval and of 1.1 nominal intervals.                                  *)
(***************************************************************************)
\* Date.now() readings of SpecDrift range over 0..MaxDriftNow
MaxDriftNow == 22

ClockSteps == {10, 11}
DriftBpmArgs == {NumberV(Int2Num(375))}
DriftBeatsPerMeasureArgs == {NumberV(Int2Num(4))}
DriftBeatLengthArgs == {NumberV(Int2Num(1)), NumberV(Int2Num(4))}

\* the host's clock advances by one of ClockSteps
ClockJumps ==
  \E d \in ClockSteps :
    /\ now + d <= MaxDriftNow
    /\ Apply("clock", <<NumberV(Int2Num(d))>>, [Cur EXCEPT !.now = @ + d])

NextDrift ==
  \/ SetBpm(DriftBpmArgs)
  \/ SetTimeSignature(DriftBeatsPerMeasureArgs, DriftBeatLengthArgs)
  \/ Toggle
  \/ TimerFires
  \/ ClockJumps

SpecDrift == Init /\ [][NextDrift]_vars

(***************************************************************************)
(* SpecRoundTrip: setTimeSignature with every time signature it stores as  *)
(* given, and getTimeSignature.                                            *)
(***************************************************************************)
RoundTripBeatsPerMeasureArgs ==
  {NumberV(Int2Num(b)) : b \in MIN_BEATS_PER_MEASURE..MAX_BEATS_PER_MEASURE}
RoundTripBeatLengthArgs ==
  {NumberV(Int2Num(l)) : l \in {1, 2, 4, 8, 16}}

GetTimeSignature ==
  Apply("getTimeSignature", <<>>,
        [Cur EXCEPT !.ret = "object", !.val = getTimeSignature(Cur)])

NextRoundTrip ==
  \/ SetTimeSignature(RoundTripBeatsPerMeasureArgs, RoundTripBeatLengthArgs)
  \/ GetTimeSignature

SpecRoundTrip == Init /\ [][NextRoundTrip]_vars

(***************************************************************************)
(* SpecLoop: the tick loop with every callback, later constructions and a  *)
(* host that eventually runs every outstanding timeout.                    *)
(***************************************************************************)
LaterConstructorArgs == {UndefinedV, FunctionV("cbStop")}

\* App.Tempo(...) or new App.Tempo(...) after the first construction
Construct ==
  \E a \in LaterConstructorArgs, withNew \in BOOLEAN :
    Apply("construct", <<a, BooleanV(withNew)>>, constructAgain(Cur, a))

NextLoop ==
  \/ Construct
  \/ SetBpm(BpmArgs)
  \/ SetStepCallback
  \/ Toggle
  \/ TimerFires

\* the host eventually runs an outstanding timeout
SpecLoop == Init /\ [][NextLoop]_vars /\ WF_vars(TimerFires)

(***************************************************************************)
(* SpecExact: the tick loop of SpecDrift with a host that can also run a   *)
(* timeout exactly when it is due, and eventually does.                    *)
(***************************************************************************)
\* the longest delay, in ms, the exact host is followed through
MaxExactDelay == 160

\* Date.now() enters the program only in the differences of lines 207 and
\* 220, so after a tick the model may count the clock from that tick
SinceTick(m) ==
  [m EXCEPT !.timeFix.lastTime = Sub(@, Int2Num(m.now)), !.now = 0]

\* the host runs the outstanding timeout at the moment it is due: delay ms
\* after the tick that requested it, which is the tick that set lastTime
ExactTick ==
  \E t \in timers :
    /\ t.delay.k = "fin"
    /\ t.delay.d = 1
    /\ t.delay.n \in 0..MaxExactDelay
    /\ timeFix.lastTime.k = "fin"
    /\ timeFix.lastTime.d = 1
    /\ timeFix.lastTime.n + t.delay.n >= now
    /\ CanSetTimeout([Cur EXCEPT !.timers = @ \ {t}])
    /\ Apply("timer", <<NumberV(Int2Num(t.id))>>,
             SinceTick(step([Cur EXCEPT
                               !.timers = @ \ {t},
                               !.now = timeFix.lastTime.n + t.delay.n])))

NextExact ==
  \/ SetBpm(DriftBpmArgs)
  \/ SetTimeSignature(DriftBeatsPerMeasureArgs, DriftBeatLengthArgs)
  \/ Toggle
  \/ TimerFires
  \/ ClockJumps
  \/ ExactTick

SpecExact == Init /\ [][NextExact]_vars /\ WF_vars(ExactTick)

(***************************************************************************)
(* Properties.                                                             *)
(***************************************************************************)
TimerIds == {t.id : t \in timers}

\* the last operation was a toggle call asking for Playing: toggle(true), or
\* toggle() (which then found the scheduler Stopped, or it would have
\* stopped it)
AskedToPlay(l) ==
  /\ l.op = "toggle"
  /\ l.args[1] \in {BooleanV(TRUE), UndefinedV}

\* C1: while the scheduler is Stopped and is not asked to play, no step of
\* the system (timer firing, clock advance, mutator, toggle(false)) invokes
\* the step callback
C1_NoStepWhileStopped ==
  [][(~isPlaying /\ ~AskedToPlay(last')) => last'.calls = <<>>]_vars

\* C1 witness: a timer tick re-armed the next timeout, then its callback
\* called toggle(false), which cleared that timeout; the clock has moved on
C1_Witness ==
  /\ last.op = "timer"
  /\ last.calls = <<"cbStop">>
  /\ Len(last.armed) = 1
  /\ last.cleared = <<stepTimeout>>
  /\ ~isPlaying
  /\ timers = {}

\* C2: the host holds at most one outstanding timeout, and exactly one
\* while Playing
C2_OneOutstandingTick ==
  /\ Cardinality(timers) <= 1
  /\ isPlaying => Cardinality(timers) = 1

\* C2 witness: toggle(true) on a Playing scheduler armed nothing
C2_Witness ==
  /\ last.op = "toggle"
  /\ last.args = <<BooleanV(TRUE)>>
  /\ last.armed = <<>>
  /\ isPlaying
  /\ Cardinality(timers) = 1

\* C3 as stated: the stored handle is non-null iff isPlaying
C3_HandleIffPlaying == (stepTimeout # null) <=> isPlaying

\* C3 amended: while Playing the stored handle is non-null and is the handle
\* of the one outstanding timeout; while Stopped the stored handle is null or
\* stale (the handle of no outstanding timeout)
C3_HandleLiveIffPlaying ==
  /\ isPlaying => (stepTimeout # null /\ TimerIds = {stepTimeout})
  /\ ~isPlaying => stepTimeout \notin TimerIds

\* C3 witness: after stop() the stored handle is the one just cleared
C3_Witness ==
  /\ last.op = "toggle"
  /\ ~isPlaying
  /\ stepTimeout # null
  /\ last.cleared = <<stepTimeout>>

\* C4: stepInterval is defined and equals (60000 / bpm) / (16 / beatLength)
C4_StepIntervalConsistent ==
  /\ stepInterval.k = "fin"
  /\ stepInterval = Div(Div(Int2Num(60000), bpm), Div(Int2Num(16), beatLength))

\* the integer a number argument denotes
ArgInt(v) == IntOf(v.num)

IsIntegerArg(v) == v.t = "number" /\ v.num.k = "fin" /\ v.num.d = 1

\* C5: right after setBpm(x) with a number x, getBpm() is x clamped to
\* [40, 600] and the call returned the instance
C5_SetBpmClamps ==
  (last.op = "setBpm" /\ IsIntegerArg(last.args[1])) =>
    LET x == ArgInt(last.args[1])
    IN  /\ getBpm(Cur) = Int2Num(IF x < 40 THEN 40 ELSE IF x > 600 THEN 600 ELSE x)
        /\ last.ret = "self"

\* C5 witness: setBpm was called with a number above the upper limit
C5_Witness ==
  /\ last.op = "setBpm"
  /\ IsIntegerArg(last.args[1])
  /\ ArgInt(last.args[1]) = 601
  /\ bpm = Int2Num(600)

\* C6: the stored beatLength is one of 1, 2, 4, 8, 16 and the stored
\* beatsPerMeasure is an integer in 1..24
C6_TimeSignatureInRange ==
  /\ beatLength \in {Int2Num(q) : q \in {1, 2, 4, 8, 16}}
  /\ beatsPerMeasure \in {Int2Num(b) : b \in 1..24}

\* C6 witness: setTimeSignature stored the limits for arguments far outside
C6_Witness ==
  /\ last.op = "setTimeSignature"
  /\ last.ret = "self"
  /\ ArgInt(last.args[1]) = 1000
  /\ beatsPerMeasure = Int2Num(24)

Divisors16 == {q \in 1..16 : 16 % q = 0}

SetBeatLength3 ==
  /\ last.op = "setTimeSignature"
  /\ last.ret = "self"
  /\ IsIntegerArg(last.args[2])
  /\ ArgInt(last.args[2]) = 3

WrongTyped(l) ==
  \/ l.op = "setBpm" /\ l.args[1].t # "number"
  \/ l.op = "setTimeSignature"
       /\ (l.args[1].t # "number" \/ l.args[2].t # "number")
  \/ l.op = "setStepCallback" /\ l.args[1].t \notin {"function", "null"}

\* C9: a mutator call with a wrong-typed argument throws the TypeError and
\* changes no field of the instance and no timeout of the host
C9_InvalidArgumentNoChange ==
  [][WrongTyped(last') =>
       (last'.ret = "TypeError" /\ UNCHANGED <<progVars, timers, now>>)]_vars

\* C9 witness: setTimeSignature with a valid first and an invalid second
\* argument has thrown on a Playing scheduler
C9_Witness ==
  /\ last.op = "setTimeSignature"
  /\ last.args[1].t = "number"
  /\ last.args[2].t # "number"
  /\ last.ret = "TypeError"
  /\ isPlaying
  /\ beatsPerMeasure # last.args[1].num

\* C10: setStepCallback(null) returns the instance and installs a no-op
C10_NullInstallsNoop ==
  (last.op = "setStepCallback" /\ last.args = <<NullV>>) =>
    (last.ret = "self" /\ callback = "noop")

\* the state toggle(a) asks for, called in a state where isPlaying is p
Requested(a, p) == IF a.t = "boolean" THEN Truthy(a) ELSE ~p

\* toggle(a) with an explicit boolean equal to isPlaying did nothing at all
ToggleNoOp ==
  /\ UNCHANGED <<progVars, timers, now>>
  /\ last'.calls = <<>>
  /\ last'.armed = <<>>
  /\ last'.cleared = <<>>
  /\ last'.ret = "self"

\* the callbacks that ran in the operation recorded in l did not themselves
\* stop the scheduler
NoStoppingCallback(l) ==
  \A i \in 1..Len(l.calls) : l.calls[i] \notin {"cbStop", "cbToggle"}

\* C11 as stated: toggle(b) with b equal to isPlaying is a complete no-op,
\* and every other toggle call ends with isPlaying equal to the state asked
\* for (b, or the negation of isPlaying when the argument is omitted)
C11_ToggleEndsAsAsked ==
  [][last'.op = "toggle" =>
       IF last'.args[1].t = "boolean" /\ Truthy(last'.args[1]) = isPlaying
         THEN ToggleNoOp
         ELSE isPlaying' = Requested(last'.args[1], isPlaying)]_vars

\* C11 amended: as stated, the second part provided the step callback run
\* by the immediate tick of start() does not itself call toggle(false) or
\* toggle()
C11_ToggleEndsAsAskedUnlessCallbackStops ==
  [][last'.op = "toggle" =>
       IF last'.args[1].t = "boolean" /\ Truthy(last'.args[1]) = isPlaying
         THEN ToggleNoOp
         ELSE NoStoppingCallback(last') =>
                isPlaying' = Requested(last'.args[1], isPlaying)]_vars

\* C11 witness: toggle(false) on a scheduler that has played and is Stopped
C11_Witness ==
  /\ last.op = "toggle"
  /\ last.args = <<BooleanV(FALSE)>>
  /\ last.cleared = <<>>
  /\ ~isPlaying
  /\ stepTimeout # null

\* C12: when a tick measured the elapsed time e and the interval was not
\* recomputed since, the delay the following tick requests is
\* stepInterval * (stepInterval / e); for finite positive e, delay * e is
\* stepInterval * stepInterval
C12_DriftDelay ==
  [][(/\ last'.op = "timer"
      /\ last'.armed # <<>>
      /\ hist.stepped
      /\ ~hist.changed) =>
       LET d == last'.armed[1]
           e == hist.elapsed
           s == stepInterval
       IN  /\ d = Mul(s, Div(s, e))
           /\ (s.k = "fin" /\ e.k = "fin" /\ e.n > 0) =>
                Mul(d, e) = Mul(s, s)]_vars

\* C12 witness: at an interval of 10 ms the tick after one that measured
\* 11 ms has requested 100/11 ms
C12_Witness ==
  /\ last.op = "timer"
  /\ stepInterval = Int2Num(10)
  /\ last.armed = <<Num(100, 11)>>
  /\ isPlaying

\* reading a string of decimal digits back: the integer it denotes, or -1
\* when it is empty, has a leading zero or holds another character
DigitValue(c) ==
  IF \E d \in 0..9 : DigitChars[d + 1] = c
    THEN CHOOSE d \in 0..9 : DigitChars[d + 1] = c
    ELSE -1

RECURSIVE ParseDigits(_)
ParseDigits(str) ==
  IF Len(str) = 0 THEN 0
  ELSE ParseDigits(SubSeq(str, 1, Len(str) - 1)) * 10 + DigitValue(str[Len(str)])

ParseInt(str) ==
  IF \/ Len(str) = 0
     \/ (Len(str) > 1 /\ str[1] = "0")
     \/ \E i \in 1..Len(str) : DigitValue(str[i]) = -1
    THEN -1
    ELSE ParseDigits(str)

\* "B/L" read back as <<B, L>>; <<-1, -1>> unless it has exactly one "/"
ParseSimple(str) ==
  LET slashes == {i \in 1..Len(str) : str[i] = "/"}
  IN  IF Cardinality(slashes) # 1 THEN <<-1, -1>>
      ELSE LET i == CHOOSE j \in slashes : TRUE
           IN  <<ParseInt(SubSeq(str, 1, i - 1)),
                 ParseInt(SubSeq(str, i + 1, Len(str)))>>

\* the operation recorded in l is setTimeSignature(b, len) with b in 1..24
\* and len one of 1, 2, 4, 8, 16
SetStorable(l) ==
  /\ l.op = "setTimeSignature"
  /\ IsIntegerArg(l.args[1])
  /\ IsIntegerArg(l.args[2])
  /\ ArgInt(l.args[1]) \in 1..24
  /\ ArgInt(l.args[2]) \in {1, 2, 4, 8, 16}

\* C13: getTimeSignature() right after setTimeSignature(b, len), b in 1..24
\* and len in {1, 2, 4, 8, 16}, returns beatsPerMeasure b, beatLength len and
\* the string "b/len"; getTimeSignature changes no state
C13_TimeSignatureRoundTrip ==
  [][last'.op = "getTimeSignature" =>
       /\ UNCHANGED <<progVars, timers, now, App>>
       /\ SetStorable(last) =>
            /\ last'.val.beatsPerMeasure = Int2Num(ArgInt(last.args[1]))
            /\ last'.val.beatLength = Int2Num(ArgInt(last.args[2]))
            /\ ParseSimple(last'.val.simple)
                 = <<ArgInt(last.args[1]), ArgInt(last.args[2])>>]_vars

\* C13 witness: getTimeSignature() has returned 24/16 as stored
C13_Witness ==
  /\ last.op = "getTimeSignature"
  /\ last.val = [beatsPerMeasure |-> Int2Num(24), beatLength |-> Int2Num(16),
                 simple |-> <<"2", "4", "/", "1", "6">>]
  /\ beatsPerMeasure = Int2Num(24)
  /\ beatLength = Int2Num(16)

\* the last operation was a toggle call that ran start()
Started == last.op = "toggle" /\ last.armed # <<>>

\* C14: a toggle call that started the scheduler invoked the step callback
\* exactly once, its tick measured exactly one interval and left the ratio 1
C14_StartTicksOnceAtRatioOne ==
  Started =>
    /\ Len(last.calls) = 1
    /\ hist.elapsed = stepInterval
    /\ timeFix.ratio = Int2Num(1)

\* the operation recorded in l is a successful setBpm or setTimeSignature
IntervalSet(l) == l.op \in {"setBpm", "setTimeSignature"} /\ l.ret = "self"

\* C15: setBpm and setTimeSignature on a Playing scheduler leave isPlaying,
\* the stored handle, the outstanding timeout, lastTime and the callback as
\* they were and set the ratio to 1; the next tick requests the new interval
C15_TempoChangeWhilePlaying ==
  [][/\ (IntervalSet(last') /\ isPlaying) =>
          /\ UNCHANGED <<isPlaying, stepTimeout, callback, timers>>
          /\ timeFix'.lastTime = timeFix.lastTime
          /\ timeFix'.ratio = Int2Num(1)
     /\ (hist.changed /\ isPlaying /\ last'.op = "timer") =>
          last'.armed = <<stepInterval>>]_vars

\* C15 witness: the interval went from 10 ms to 40 ms after a tick that
\* came 11 ms after the start; the timeout requested at 10 ms is still the
\* outstanding one
C15_Witness ==
  /\ last.op = "setTimeSignature"
  /\ last.ret = "self"
  /\ isPlaying
  /\ stepInterval = Int2Num(40)
  /\ timeFix = [lastTime |-> Int2Num(11), ratio |-> Int2Num(1)]
  /\ \E t \in timers : t.id = stepTimeout /\ t.delay = Int2Num(10)

\* C16: if from some point on the scheduler stays Playing, the host's
\* timeouts run the step callback again and again, whether or not the
\* callback throws
C16_LoopStaysArmed ==
  <>[]isPlaying => []<><<TimerFires /\ last'.calls # <<>>>>_vars

\* C16 witness: the callback of a timer tick has thrown and the next
\* timeout is outstanding
C16_Witness ==
  /\ last.op = "timer"
  /\ last.thrown
  /\ last.calls = <<"cbThrow">>
  /\ isPlaying
  /\ \E t \in timers : t.id = stepTimeout

\* x is a finite number above zero
PositiveFinite(x) == x.k = "fin" /\ x.n > 0

\* C17: once the interval has been computed, timeFix.ratio is a positive
\* finite number and so is every delay the last operation requested from
\* the host
C17_RatioAndDelaysPositiveFinite ==
  stepInterval.k = "fin" =>
    /\ PositiveFinite(timeFix.ratio)
    /\ \A i \in 1..Len(last.armed) : PositiveFinite(last.armed[i])

\* C18: the first delay start() requests is stepInterval, whatever finite
\* positive ratio the last tick left in timeFix
C18_StartRequestsInterval ==
  [][(/\ last'.op = "toggle"
      /\ last'.armed # <<>>
      /\ stepInterval.k = "fin"
      /\ PositiveFinite(timeFix.ratio)) =>
       last'.armed[1] = stepInterval]_vars

\* C20: a later App.Tempo(...) or new App.Tempo(...) returns the instance,
\* changes nothing of the scheduler, of the host's timeouts or of the clock,
\* and runs no callback
C20_LaterConstructionChangesNothing ==
  [][last'.op = "construct" =>
       /\ UNCHANGED <<progVars, timers, now>>
       /\ last'.ret = "instance"
       /\ last'.calls = <<>>
       /\ ~last'.thrown]_vars

\* C20 witness: new App.Tempo(f) on a Playing scheduler that has another
\* step callback installed
C20_Witness ==
  /\ last.op = "construct"
  /\ last.args = <<FunctionV("cbStop"), BooleanV(TRUE)>>
  /\ last.ret = "instance"
  /\ callback = "cbThrow"
  /\ isPlaying
  /\ bpm = Int2Num(MAX_BPM)
  /\ \E t \in timers : t.id = stepTimeout

\* the ratio is 1 and the outstanding timeout, if any, was requested at
\* stepInterval
Nominal ==
  /\ timeFix.ratio = Int2Num(1)
  /\ \A t \in timers : t.delay = stepInterval

\* C19: if from some point on the only steps are timeouts run exactly when
\* due, and there are infinitely many of them, then from some point on the
\* ratio is 1 and every requested delay is stepInterval
C19_CorrectionStabilises ==
  (<>[][ExactTick]_vars /\ []<><<ExactTick>>_vars) => <>[]Nominal

==========================================================================
